---- MODULE Spec2Model ----
(***************************************************************************)
(* Background page of the moderator toolbox extension: the message router, *)
(* the notification lifecycle, the cache-timeout scheduler, the cache      *)
(* store and the OAuth request proxy (background.js, with the handlers of  *)
(* handlers/notifications.js).  The event loop runs one task at a time, so *)
(* every action below is one task: a message delivered to the listener, a  *)
(* host callback, or a timer firing.                                       *)
(***************************************************************************)
EXTENDS Integers, Sequences, FiniteSets, TLC

\* ------------------------------------------------------------------ bounds
MaxNotifs == 2
MaxCount == 2
MaxReads == 4

\* --------------------------------------------------------------- variables
VARIABLES
    messageHandlers,   \* the Map: per action, the handler registered or NoHandler
    hasPermApi,        \* whether chrome.notifications.getPermissionLevel exists
    nextId,            \* next notification id to hand out (uuidv4 is fresh each call)
    sendReq,           \* per id: the position of the send task and its details
    notificationData,  \* per id: the notification's metadata, or NoRecord
    expiryTimers,      \* per id: pending setTimeout(clearNotification, 6000) callbacks
    hostShown,         \* native notifications the host currently displays
    closedQueue,       \* native ids whose onClosed event the host has yet to deliver
    hostClearCalls,    \* per id: chrome.notifications.clear calls made (saturating)
    clearBroadcasts,   \* per id: 'tb-clear-page-notification' broadcasts made (saturating)
    tabOpens,          \* per id: pending getLastFocused callbacks (saturating)
    disposedEarly,     \* ids cleared, clicked or host-closed while their expiry was pending
    TBsettingsObject,  \* the settings snapshot last delivered
    currentDurations,  \* cachedata.currentDurations: per tier, the duration in effect
    timeouts,          \* cachedata.timeouts: per tier, the handle of the last timer armed
    timers,            \* the pending cache timers: handle, tier, duration, delay
    localStorage,      \* per key: the stored string (a sequence of characters), or Unset
    started,           \* how the start-up callback ended: "no", "ok" or "threw"
    lastSet,           \* per key: the value last cache-set and not cleared since
    cookie,            \* the 'token' cookie of mod.reddit.com
    req,               \* the tb-request in flight: its position, counts and answer
    fx                 \* what the last task did: its operation, response and effects

notifVars == <<messageHandlers, hasPermApi, nextId, sendReq, notificationData,
               expiryTimers, hostShown, closedQueue, hostClearCalls,
               clearBroadcasts, tabOpens, disposedEarly>>

cacheVars == <<TBsettingsObject, currentDurations, timeouts, timers, localStorage,
               started, lastSet>>

authVars == <<cookie, req>>

vars == <<notifVars, cacheVars, authVars, fx>>

\* ----------------------------------------------------------------- helpers
Ids == 1..MaxNotifs

Bump(n) == IF n < MaxCount THEN n + 1 ELSE n

NoRecord == [type |-> "none", markreadid |-> FALSE]

\* JavaScript values that travel in messages and through JSON: a tag and, for
\* an array or a number, its digits.
JUndefined == [t |-> "undefined", v |-> <<>>]
JNull == [t |-> "null", v |-> <<>>]
JObject == [t |-> "object", v |-> <<>>]
JArray(s) == [t |-> "array", v |-> s]
JNumber(d) == [t |-> "number", v |-> <<d>>]

\* A response of the listener: undefined, true, or a result object with its
\* value and whether it carries an errorThrown field.
Undef == [kind |-> "undefined", value |-> JUndefined, err |-> FALSE]
RespTrue == [kind |-> "true", value |-> JUndefined, err |-> FALSE]
Result(value, err) == [kind |-> "result", value |-> value, err |-> err]

NoArg == [key |-> "", val |-> JUndefined]

NoFx == [op |-> "none", id |-> 0, via |-> "none", threw |-> FALSE,
         resp |-> Undef, eff |-> <<>>, method |-> "", arg |-> NoArg, to |-> {},
         cbThrew |-> FALSE]

Fx(op, id, via, threw, resp, eff) ==
    [NoFx EXCEPT !.op = op, !.id = id, !.via = via, !.threw = threw,
                 !.resp = resp, !.eff = eff]

\* The actions notifications.js registers with messageHandlers.set.
NotificationHandlers ==
    {"tb-notification", "tb-page-notification-click", "tb-page-notification-close"}

\* The actions the listener's own if-chain knows.
BuiltinActions ==
    {"tb-reload", "tb-global", "tb-cache-force-timeout", "tb-notification",
     "tb-page-notification-click", "tb-page-notification-close",
     "tb-request", "tb-cache"}

\* The actions messages carry: the listener's own and two it does not know.
ActionNames == BuiltinActions \cup {"tb-unknown", "tb-cache-v2"}

\* messageHandlers.get(action) of an action nobody registered: undefined.
NoHandler == "(none)"

\* The handlers: those notifications.js registers, and one a script loaded
\* later registers.
Handlers == {"notifications.js", "later"}

\* new Map()
EmptyMap == [a \in ActionNames |-> NoHandler]

\* A registration that keeps the handler an action already has.
MapSetIfAbsent(m, key, value) ==
    IF m[key] = NoHandler THEN [m EXCEPT ![key] = value] ELSE m

\* Map.prototype.set: the value of the key is replaced.
MapSet(m, key, value) == [m EXCEPT ![key] = value]

\* The Map once notifications.js has run.
NotificationsJs ==
    [a \in ActionNames |->
        IF a \in NotificationHandlers THEN "notifications.js" ELSE NoHandler]

\* Which code runs for an action: the registered handler if there is one
\* (the listener returns its result), else the listener's own branch.
Via(action) ==
    IF messageHandlers[action] # NoHandler THEN messageHandlers[action]
    ELSE IF action \in BuiltinActions THEN "builtin"
    ELSE "none"

\* ------------------------------------------------- notification lifecycle
\* The notification manager's data as one value, so that a function calling
\* another (onClickNotification calls clearNotification) composes.
NState ==
    [data |-> notificationData, shown |-> hostShown, closedQ |-> closedQueue,
     clearCalls |-> hostClearCalls, bcasts |-> clearBroadcasts,
     opens |-> tabOpens, eff |-> <<>>, threw |-> FALSE]

\* chrome.notifications.clear(id) at the host: a displayed notification is
\* removed and its onClosed event queued; an unknown id changes nothing.
HostClear(n, id) ==
    IF id \in n.shown
    THEN [n EXCEPT !.shown = @ \ {id}, !.closedQ = @ \cup {id}]
    ELSE n

\* clearNotification without its "already cleared" return.
clearNotificationUnguarded(n, id) ==
    LET metadata == n.data[id] IN
    IF metadata = NoRecord
    THEN [n EXCEPT !.threw = TRUE]
    ELSE IF metadata.type = "native"
    THEN [HostClear(n, id) EXCEPT !.clearCalls[id] = Bump(@),
                                  !.eff = Append(@, "hostClear")]
    ELSE [n EXCEPT !.bcasts[id] = Bump(@),
                   !.eff = Append(@, "clearBroadcast"),
                   !.data[id] = NoRecord]

clearNotification(n, id) ==
    LET metadata == n.data[id] IN
    IF metadata = NoRecord
    THEN n
    ELSE IF metadata.type = "native"
    THEN [HostClear(n, id) EXCEPT !.clearCalls[id] = Bump(@),
                                  !.eff = Append(@, "hostClear")]
    ELSE [n EXCEPT !.bcasts[id] = Bump(@),
                   !.eff = Append(@, "clearBroadcast"),
                   !.data[id] = NoRecord]

\* onClickNotification posting read_message whether or not there is a markreadid.
onClickNotificationAlwaysMarks(n, id) ==
    LET metadata == n.data[id] IN
    IF metadata = NoRecord
    THEN [n EXCEPT !.threw = TRUE]
    ELSE clearNotification([n EXCEPT !.eff = @ \o <<"markRead", "getLastFocused">>,
                                     !.opens[id] = Bump(@)], id)

onClickNotification(n, id) ==
    LET metadata == n.data[id] IN
    IF metadata = NoRecord
    THEN \* notificationData[notificationID].markreadid on undefined: TypeError
         [n EXCEPT !.threw = TRUE]
    ELSE LET n1 == IF metadata.markreadid
                   THEN [n EXCEPT !.eff = Append(@, "markRead")]
                   ELSE n
             n2 == [n1 EXCEPT !.eff = Append(@, "getLastFocused"),
                              !.opens[id] = Bump(@)]
         IN  clearNotification(n2, id)

\* Write a notification-manager value back to the variables.
Commit(n) ==
    /\ notificationData' = n.data
    /\ hostShown' = n.shown
    /\ closedQueue' = n.closedQ
    /\ hostClearCalls' = n.clearCalls
    /\ clearBroadcasts' = n.bcasts
    /\ tabOpens' = n.opens

\* A disposal trigger for id that arrives while its expiry is pending.
NoteEarly(id) ==
    disposedEarly' = IF expiryTimers[id] > 0 /\ notificationData[id] # NoRecord
                     THEN disposedEarly \cup {id} ELSE disposedEarly

\* 'tb-notification' handled by the registered handler and then by the
\* listener's own branch as well: two sends start.
OnNotificationTwice(native, markreadid) ==
    /\ nextId <= MaxNotifs
    /\ LET id == nextId
           twice == messageHandlers["tb-notification"] # NoHandler /\ id < MaxNotifs
           sends == IF twice THEN {id, id + 1} ELSE {id}
       IN
       /\ nextId' = nextId + Cardinality(sends)
       /\ sendReq' = [i \in Ids |->
             IF i \notin sends THEN sendReq[i]
             ELSE [pc |-> IF ~native THEN "query"
                          ELSE IF hasPermApi THEN "perm" ELSE "create",
                   markreadid |-> markreadid]]
       /\ notificationData' = [i \in Ids |->
             IF i \in sends /\ ~native
             THEN [type |-> "page", markreadid |-> markreadid]
             ELSE notificationData[i]]
       /\ fx' = Fx("tb-notification", id, Via("tb-notification"), FALSE, Undef, <<>>)
    /\ UNCHANGED <<cacheVars, authVars>>
    /\ UNCHANGED <<messageHandlers, hasPermApi, expiryTimers, hostShown, closedQueue,
                   hostClearCalls, clearBroadcasts, tabOpens, disposedEarly>>

\* 'tb-notification': the send starts; no response.
\* Native: getPermissionLevel is asked when the host has it, else send() runs
\* at once.  Page: the record is registered and chrome.tabs.query is asked.
OnNotification(native, markreadid) ==
    /\ nextId <= MaxNotifs
    /\ LET id == nextId IN
       /\ nextId' = nextId + 1
       /\ IF native
          THEN /\ sendReq' = [sendReq EXCEPT ![id] =
                     [pc |-> IF hasPermApi THEN "perm" ELSE "create",
                      markreadid |-> markreadid]]
               /\ UNCHANGED notificationData
          ELSE /\ sendReq' = [sendReq EXCEPT ![id] =
                     [pc |-> "query", markreadid |-> markreadid]]
               /\ notificationData' = [notificationData EXCEPT ![id] =
                     [type |-> "page", markreadid |-> markreadid]]
       /\ fx' = Fx("tb-notification", id, Via("tb-notification"), FALSE, Undef, <<>>)
    /\ UNCHANGED <<cacheVars, authVars>>
    /\ UNCHANGED <<messageHandlers, hasPermApi, expiryTimers, hostShown, closedQueue,
                   hostClearCalls, clearBroadcasts, tabOpens, disposedEarly>>

\* The permission callback calling send() whatever the host answers.
PermissionCallbackAlwaysSends(id, permission) ==
    /\ sendReq[id].pc = "perm"
    /\ sendReq' = [sendReq EXCEPT ![id].pc = "create"]
    /\ fx' = [Fx("permission", id, "none", FALSE, Undef, <<>>)
                EXCEPT !.method = permission]
    /\ UNCHANGED <<cacheVars, authVars>>
    /\ UNCHANGED <<messageHandlers, hasPermApi, nextId, notificationData, expiryTimers,
                   hostShown, closedQueue, hostClearCalls, clearBroadcasts, tabOpens,
                   disposedEarly>>

\* getPermissionLevel's callback: 'granted' calls send(), anything else rejects
\* the promise (nothing is listening for the rejection).
PermissionCallback(id, permission) ==
    /\ sendReq[id].pc = "perm"
    /\ sendReq' = [sendReq EXCEPT ![id].pc =
                      IF permission = "granted" THEN "create" ELSE "rejected"]
    /\ fx' = [Fx("permission", id, "none", FALSE, Undef, <<>>)
                EXCEPT !.method = permission]
    /\ UNCHANGED <<cacheVars, authVars>>
    /\ UNCHANGED <<messageHandlers, hasPermApi, nextId, notificationData, expiryTimers,
                   hostShown, closedQueue, hostClearCalls, clearBroadcasts, tabOpens,
                   disposedEarly>>

\* chrome.notifications.create's callback: the record is registered, the
\* promise resolves and its then-callback arms the 6000 ms expiry.
CreateCallback(id) ==
    /\ sendReq[id].pc = "create"
    /\ sendReq' = [sendReq EXCEPT ![id].pc = "done"]
    /\ notificationData' = [notificationData EXCEPT ![id] =
           [type |-> "native", markreadid |-> sendReq[id].markreadid]]
    /\ hostShown' = hostShown \cup {id}
    /\ expiryTimers' = [expiryTimers EXCEPT ![id] = @ + 1]
    /\ fx' = Fx("created", id, "none", FALSE, Undef, <<"setTimeout">>)
    /\ UNCHANGED <<cacheVars, authVars>>
    /\ UNCHANGED <<messageHandlers, hasPermApi, nextId, closedQueue, hostClearCalls,
                   clearBroadcasts, tabOpens, disposedEarly>>

\* chrome.tabs.query's callback of sendPageNotification: the show message goes
\* to the reddit tabs, the promise resolves and the expiry is armed.
QueryCallback(id) ==
    /\ sendReq[id].pc = "query"
    /\ sendReq' = [sendReq EXCEPT ![id].pc = "done"]
    /\ expiryTimers' = [expiryTimers EXCEPT ![id] = @ + 1]
    /\ fx' = Fx("shown", id, "none", FALSE, Undef, <<"showBroadcast", "setTimeout">>)
    /\ UNCHANGED <<cacheVars, authVars>>
    /\ UNCHANGED <<messageHandlers, hasPermApi, nextId, notificationData, hostShown,
                   closedQueue, hostClearCalls, clearBroadcasts, tabOpens, disposedEarly>>

\* The 6000 ms timer fires: clearNotification(id).
ExpiryFires(id) ==
    /\ expiryTimers[id] > 0
    /\ expiryTimers' = [expiryTimers EXCEPT ![id] = @ - 1]
    /\ \E n \in {clearNotification(NState, id)} :
       /\ Commit(n)
       /\ fx' = Fx("expiry", id, "none", n.threw, Undef, n.eff)
    /\ UNCHANGED <<cacheVars, authVars>>
    /\ UNCHANGED <<messageHandlers, hasPermApi, nextId, sendReq, disposedEarly>>

\* 'tb-page-notification-close' {id}: clearNotification(id); no response.
OnPageNotificationClose(id) ==
    /\ \E n \in {clearNotification(NState, id)} :
       /\ Commit(n)
       /\ fx' = Fx("tb-page-notification-close", id,
                   Via("tb-page-notification-close"), n.threw, Undef, n.eff)
    /\ NoteEarly(id)
    /\ UNCHANGED <<cacheVars, authVars>>
    /\ UNCHANGED <<messageHandlers, hasPermApi, nextId, sendReq, expiryTimers>>

\* 'tb-page-notification-click' {id}: onClickNotification(id); no response.
OnPageNotificationClick(id) ==
    /\ \E n \in {onClickNotification(NState, id)} :
       /\ Commit(n)
       /\ fx' = Fx("tb-page-notification-click", id,
                   Via("tb-page-notification-click"), n.threw, Undef, n.eff)
    /\ NoteEarly(id)
    /\ UNCHANGED <<cacheVars, authVars>>
    /\ UNCHANGED <<messageHandlers, hasPermApi, nextId, sendReq, expiryTimers>>

\* chrome.notifications.onClicked: the user clicks a displayed notification.
HostClicked(id) ==
    /\ id \in hostShown
    /\ \E n \in {onClickNotification(NState, id)} :
       /\ Commit(n)
       /\ fx' = Fx("onClicked", id, "none", n.threw, Undef, n.eff)
    /\ NoteEarly(id)
    /\ UNCHANGED <<cacheVars, authVars>>
    /\ UNCHANGED <<messageHandlers, hasPermApi, nextId, sendReq, expiryTimers>>

\* The user dismisses a displayed notification: the host removes it and
\* queues its onClosed event.
UserCloses(id) ==
    /\ id \in hostShown
    /\ hostShown' = hostShown \ {id}
    /\ closedQueue' = closedQueue \cup {id}
    /\ fx' = Fx("userClose", id, "none", FALSE, Undef, <<>>)
    /\ UNCHANGED <<cacheVars, authVars>>
    /\ UNCHANGED <<messageHandlers, hasPermApi, nextId, sendReq, notificationData,
                   expiryTimers, hostClearCalls, clearBroadcasts, tabOpens,
                   disposedEarly>>

\* The onClosed listener going through clearNotification before it deletes.
HostClosedViaClear(id) ==
    /\ id \in closedQueue
    /\ \E n \in {clearNotification([NState EXCEPT !.closedQ = @ \ {id}], id)} :
       /\ Commit([n EXCEPT !.data[id] = NoRecord])
       /\ fx' = Fx("onClosed", id, "none", n.threw, Undef, n.eff)
    /\ NoteEarly(id)
    /\ UNCHANGED <<cacheVars, authVars>>
    /\ UNCHANGED <<messageHandlers, hasPermApi, nextId, sendReq, expiryTimers>>

\* chrome.notifications.onClosed: delete notificationData[id], nothing else.
HostClosed(id) ==
    /\ id \in closedQueue
    /\ closedQueue' = closedQueue \ {id}
    /\ notificationData' = [notificationData EXCEPT ![id] = NoRecord]
    /\ NoteEarly(id)
    /\ fx' = Fx("onClosed", id, "none", FALSE, Undef, <<>>)
    /\ UNCHANGED <<cacheVars, authVars>>
    /\ UNCHANGED <<messageHandlers, hasPermApi, nextId, sendReq, expiryTimers,
                   hostShown, hostClearCalls, clearBroadcasts, tabOpens>>

\* getLastFocused's callback of a click: chrome.tabs.create opens the url.
TabOpens(id) ==
    /\ tabOpens[id] > 0
    /\ tabOpens' = [tabOpens EXCEPT ![id] = @ - 1]
    /\ fx' = Fx("tabCreate", id, "none", FALSE, Undef, <<"tabCreate">>)
    /\ UNCHANGED <<cacheVars, authVars>>
    /\ UNCHANGED <<messageHandlers, hasPermApi, nextId, sendReq, notificationData,
                   expiryTimers, hostShown, closedQueue, hostClearCalls,
                   clearBroadcasts, disposedEarly>>

\* ------------------------------------------------------- JSON and strings
\* Strings the code inspects are sequences of one-character strings.
DigitChars == <<"0", "1", "2", "3", "4", "5", "6", "7", "8", "9">>

IsDigit(c) == \E i \in 1..10 : DigitChars[i] = c

DigitOf(c) == (CHOOSE i \in 1..10 : DigitChars[i] = c) - 1

NullText == <<"n", "u", "l", "l">>

UndefinedText == <<"u", "n", "d", "e", "f", "i", "n", "e", "d">>

\* A stored string no JSON parser accepts.
CorruptText == <<"{", "o">>

\* localStorage[key] === undefined
Unset == <<"(unset)">>

RECURSIVE JoinDigits(_)
JoinDigits(s) ==
    IF s = <<>> THEN <<>>
    ELSE IF Len(s) = 1 THEN <<DigitChars[s[1] + 1]>>
    ELSE <<DigitChars[s[1] + 1], ",">> \o JoinDigits(Tail(s))

\* JSON.stringify of a defined value.
JSONStringify(val) ==
    CASE val.t = "null" -> NullText
      [] val.t = "object" -> <<"{", "}">>
      [] val.t = "number" -> <<DigitChars[val.v[1] + 1]>>
      [] val.t = "array" -> <<"[">> \o JoinDigits(val.v) \o <<"]">>

\* What localStorage[key] = JSON.stringify(inputValue) stores: stringify of
\* undefined is undefined, and the store keeps its string form.
StoreString(val) ==
    IF val.t = "undefined" THEN UndefinedText ELSE JSONStringify(val)

\* The elements of an array text: digits separated by commas.  <<-1>> marks a
\* syntax error.
RECURSIVE ParseElements(_)
ParseElements(s) ==
    IF s = <<>> THEN <<-1>>
    ELSE IF ~IsDigit(s[1]) THEN <<-1>>
    ELSE IF Len(s) = 1 THEN <<DigitOf(s[1])>>
    ELSE IF s[2] # "," THEN <<-1>>
    ELSE LET rest == ParseElements(SubSeq(s, 3, Len(s))) IN
         IF rest = <<-1>> THEN <<-1>> ELSE <<DigitOf(s[1])>> \o rest

\* JSON.parse: the value, or a SyntaxError (ok = FALSE).
JSONParse(s) ==
    IF s = NullText THEN [ok |-> TRUE, val |-> JNull]
    ELSE IF s = <<"{", "}">> THEN [ok |-> TRUE, val |-> JObject]
    ELSE IF Len(s) = 1 /\ IsDigit(s[1]) THEN [ok |-> TRUE, val |-> JNumber(DigitOf(s[1]))]
    ELSE IF s = <<"[", "]">> THEN [ok |-> TRUE, val |-> JArray(<<>>)]
    ELSE IF Len(s) > 2 /\ s[1] = "[" /\ s[Len(s)] = "]"
    THEN LET e == ParseElements(SubSeq(s, 2, Len(s) - 1)) IN
         IF e = <<-1>> THEN [ok |-> FALSE, val |-> JUndefined]
         ELSE [ok |-> TRUE, val |-> JArray(e)]
    ELSE [ok |-> FALSE, val |-> JUndefined]

\* ------------------------------------------------------- cache scheduler
Tiers == {"short", "long"}

ShortKeys ==
    {"TBCache.Utils.noteCache", "TBCache.Utils.noConfig", "TBCache.Utils.noNotes"}

LongKeys ==
    {"TBCache.Utils.configCache", "TBCache.Utils.rulesCache", "TBCache.Utils.noRules",
     "TBCache.Utils.moderatedSubs", "TBCache.Utils.moderatedSubsData"}

TierKeys(cacheType) == IF cacheType = "short" THEN ShortKeys ELSE LongKeys

\* A key of no tier, as a caller of tb-cache may use.
OtherKeys == {"X"}

StorageKeys == ShortKeys \cup LongKeys \cup OtherKeys

\* The string emptyCacheTimeout writes to a tier's key.
Sentinel(key) ==
    IF key \in {"TBCache.Utils.noteCache", "TBCache.Utils.configCache",
                "TBCache.Utils.rulesCache"}
    THEN <<"{", "}">> ELSE <<"[", "]">>

\* The message emptyCacheTimeout sends to the reddit tabs.
TierEvent(cacheType) ==
    IF cacheType = "short" THEN "tb-cache-timeout:short" ELSE "tb-cache-timeout:long"

\* A setting as stored: missing, a number, or a string.
SUndef == [k |-> "undefined", n |-> 0, s |-> <<>>]
SNum(n) == [k |-> "number", n |-> n, s |-> <<>>]
SStr(s) == [k |-> "string", n |-> 0, s |-> s]

\* A snapshot: whether it has a tbsettings object, and the two lengths in it.
Snapshot(tb, short, long) == [tb |-> tb, short |-> short, long |-> long]

EmptySnapshot == Snapshot(FALSE, SUndef, SUndef)

NaN == -1

\* parseInt(s) of a string without sign or blanks: its leading decimal digits,
\* NaN when there are none.
RECURSIVE LeadingDigits(_, _)
LeadingDigits(s, acc) ==
    IF s = <<>> \/ ~IsDigit(s[1]) THEN acc
    ELSE LeadingDigits(Tail(s), 10 * acc + DigitOf(s[1]))

ParseInt(s) ==
    IF s = <<>> \/ ~IsDigit(s[1]) THEN NaN ELSE LeadingDigits(s, 0)

\* a !== b on numbers: NaN differs from everything, itself included.
StrictNeq(a, b) == a = NaN \/ b = NaN \/ a # b

DefaultShortLength == 15
DefaultLongLength == 45
MsPerMinute == 60000

\* The length initCachetimeout reads for a tier.
StorageLength(setting, default) ==
    IF setting.k = "undefined" THEN default
    ELSE IF setting.k = "number" THEN setting.n
    ELSE ParseInt(setting.s)

\* The delay computed in seconds instead of minutes.
TimeoutMSSeconds(timeoutDuration) ==
    IF timeoutDuration = NaN THEN NaN ELSE timeoutDuration * 1000

TimeoutMS(timeoutDuration) ==
    IF timeoutDuration = NaN THEN NaN ELSE timeoutDuration * MsPerMinute

\* The scheduler's data as one value.
CState ==
    [settings |-> TBsettingsObject, cur |-> currentDurations, timeouts |-> timeouts,
     timers |-> timers, store |-> localStorage, eff |-> <<>>, threw |-> FALSE]

\* A timer handle no pending timer has and cachedata.timeouts does not hold
\* (the host never hands out a handle twice).
FreshHandle(c) ==
    LET used == {t.handle : t \in c.timers} \cup {c.timeouts[x] : x \in Tiers} IN
    CHOOSE h \in 1..(Cardinality(used) + 1) : h \notin used

clearTimeout(c, handle) ==
    [c EXCEPT !.timers = {t \in @ : t.handle # handle}]

emptyCacheTimeout(c, timeoutDuration, cacheType) ==
    LET c1 == clearTimeout(c, c.timeouts[cacheType])
        c2 == [c1 EXCEPT
                 !.store = [k \in StorageKeys |->
                              IF k \in TierKeys(cacheType) THEN Sentinel(k) ELSE @[k]],
                 !.eff = Append(@, TierEvent(cacheType))]
        h == FreshHandle(c2)
    IN  [c2 EXCEPT !.timeouts[cacheType] = h,
                   !.timers = @ \cup {[handle |-> h, tier |-> cacheType,
                                       dur |-> timeoutDuration,
                                       ms |-> TimeoutMS(timeoutDuration)]}]

initCachetimeout(c, forceRefresh) ==
    IF ~c.settings.tb
    THEN \* TBsettingsObject.tbsettings is undefined: reading a key of it throws
         [c EXCEPT !.threw = TRUE]
    ELSE LET storageShortLength == StorageLength(c.settings.short, DefaultShortLength)
             storageLongLength == StorageLength(c.settings.long, DefaultLongLength)
             c1 == IF StrictNeq(storageShortLength, c.cur.short) \/ forceRefresh
                   THEN emptyCacheTimeout([c EXCEPT !.cur.short = storageShortLength],
                                          storageShortLength, "short")
                   ELSE c
         IN  IF StrictNeq(storageLongLength, c1.cur.long) \/ forceRefresh
             THEN emptyCacheTimeout([c1 EXCEPT !.cur.short = storageShortLength],
                                    storageLongLength, "long")
             ELSE c1

\* The tiers a task cleared, read off the broadcasts it sent.
ClearedTiers(eff) ==
    {x \in Tiers : \E i \in 1..Len(eff) : eff[i] = TierEvent(x)}

NotSet == [t |-> "none", v |-> <<>>]

\* Write a scheduler value back to the variables.
CommitCache(c) ==
    /\ TBsettingsObject' = c.settings
    /\ currentDurations' = c.cur
    /\ timeouts' = c.timeouts
    /\ timers' = c.timers
    /\ localStorage' = c.store
    /\ lastSet' = [k \in StorageKeys |->
                     IF \E x \in ClearedTiers(c.eff) : k \in TierKeys(x)
                     THEN NotSet ELSE lastSet[k]]

\* The settings a snapshot may carry.
ShortInputs == {SUndef, SNum(5), SStr(<<"5">>), SStr(<<"a">>)}

LongInputs == {SUndef, SNum(0), SNum(30)}

SnapshotInputs ==
    {EmptySnapshot} \cup {Snapshot(TRUE, s, l) : s \in ShortInputs, l \in LongInputs}

\* The tabs open in the browser, and those showing reddit.com.
Tabs == {1, 2, 3}

RedditTabs == {1, 2}

\* A sender outside any tab (the popup, the options page): sender.tab is undefined.
NoTab == 0

\* chrome.storage.local.get('tbsettings', ...) calls back at start-up.
Startup(sObject) ==
    /\ started = "no"
    /\ \E c \in {initCachetimeout([CState EXCEPT !.settings = sObject], TRUE)} :
       /\ CommitCache(c)
       /\ started' = IF c.threw THEN "threw" ELSE "ok"
       /\ fx' = Fx("startup", 0, "none", c.threw, Undef, c.eff)
    /\ UNCHANGED <<notifVars, authVars>>

\* A cache timer fires: emptyCacheTimeout(timeoutDuration, cacheType) again.
CacheTimerFires(t) ==
    /\ t \in timers
    /\ \E c \in {emptyCacheTimeout([CState EXCEPT !.timers = @ \ {t}], t.dur, t.tier)} :
       /\ CommitCache(c)
       /\ fx' = [Fx("cacheTimer", 0, "none", c.threw, Undef, c.eff)
                   EXCEPT !.arg.key = t.tier]
    /\ UNCHANGED <<notifVars, authVars, started>>

\* 'tb-cache-force-timeout': initCachetimeout(true); no response.
OnCacheForceTimeout ==
    /\ \E c \in {initCachetimeout(CState, TRUE)} :
       /\ CommitCache(c)
       /\ fx' = Fx("tb-cache-force-timeout", 0, Via("tb-cache-force-timeout"),
                   c.threw, Undef, c.eff)
    /\ UNCHANGED <<notifVars, authVars, started>>

\* 'tb-global': the event goes to every reddit tab but the sender's (in the
\* callback of chrome.tabs.query, which throws on sender.tab.id when the sender
\* has no tab); a settings update also replaces the snapshot and runs
\* initCachetimeout().  Responds true.
OnGlobal(sender, globalEvent, payload) ==
    /\ \E c \in {IF globalEvent = "tb-settings-update"
                  THEN initCachetimeout([CState EXCEPT !.settings = payload], FALSE)
                  ELSE CState} :
       /\ CommitCache(c)
       /\ fx' = [Fx("tb-global", 0, Via("tb-global"), c.threw,
                    IF c.threw THEN Undef ELSE RespTrue, c.eff)
                   EXCEPT !.arg.key = globalEvent,
                          !.id = sender,
                          !.to = IF sender = NoTab THEN {} ELSE RedditTabs \ {sender},
                          !.cbThrew = (sender = NoTab /\ Tabs # {})]
    /\ UNCHANGED <<notifVars, authVars, started>>

\* ------------------------------------------------------------ cache store
\* The catch block without its result.value = inputValue.
CacheGetNoDefault(store, storageKey, inputValue) ==
    IF store[storageKey] = Unset
    THEN Result(inputValue, FALSE)
    ELSE LET parsed == JSONParse(store[storageKey]) IN
         Result(IF parsed.ok /\ ~(parsed.val = JNull /\ inputValue # JNull)
                THEN parsed.val ELSE IF parsed.ok THEN inputValue ELSE JUndefined,
                ~parsed.ok)

\* 'tb-cache' with method 'get': the stored value, or the default.
CacheGet(store, storageKey, inputValue) ==
    IF store[storageKey] = Unset
    THEN Result(inputValue, FALSE)
    ELSE LET parsed == JSONParse(store[storageKey])
             value == IF parsed.ok THEN parsed.val ELSE inputValue
         IN  Result(IF value = JNull /\ inputValue # JNull THEN inputValue ELSE value,
                    ~parsed.ok)

\* The store written without JSON.stringify: an array is kept as its elements
\* joined by commas.
CacheSetRaw(store, storageKey, inputValue) ==
    [store EXCEPT ![storageKey] = IF inputValue.t = "array"
                                  THEN JoinDigits(inputValue.v)
                                  ELSE StoreString(inputValue)]

\* 'tb-cache' with method 'set': localStorage[storageKey] = JSON.stringify(inputValue).
CacheSet(store, storageKey, inputValue) ==
    [store EXCEPT ![storageKey] = StoreString(inputValue)]

\* 'tb-cache' with method 'clear': localStorage.clear().
CacheClear(store) == [k \in StorageKeys |-> Unset]

OnCache(method, storageKey, inputValue) ==
    /\ localStorage' = CASE method = "set" -> CacheSet(localStorage, storageKey, inputValue)
                         [] method = "clear" -> CacheClear(localStorage)
                         [] OTHER -> localStorage
    /\ lastSet' = CASE method = "set" -> [lastSet EXCEPT ![storageKey] = inputValue]
                    [] method = "clear" -> [k \in StorageKeys |-> NotSet]
                    [] OTHER -> lastSet
    /\ fx' = [Fx("tb-cache", 0, Via("tb-cache"), FALSE,
                 IF method = "get" THEN CacheGet(localStorage, storageKey, inputValue)
                 ELSE Undef, <<>>)
                EXCEPT !.arg = [key |-> storageKey, val |-> inputValue],
                       !.method = method]
    /\ UNCHANGED <<notifVars, authVars, TBsettingsObject, currentDurations,
                   timeouts, timers, started>>

\* The keys, values and methods a tb-cache message may carry.
MsgKeys == {"TBCache.Utils.noteCache", "X"}

CacheValues == {JUndefined, JNull, JObject, JArray(<<>>), JArray(<<1, 2, 3>>)}

\* The scheduler and the store as the script leaves them when it has loaded.
CacheStart(stores) ==
    /\ TBsettingsObject = EmptySnapshot
    /\ currentDurations = [short |-> 0, long |-> 0]
    /\ timeouts = [short |-> 0, long |-> 0]
    /\ timers = {}
    /\ localStorage \in stores
    /\ started = "no"
    /\ lastSet = [k \in StorageKeys |-> NotSet]

EmptyStore == [k \in StorageKeys |-> Unset]

\* localStorage outlives the process: a key may hold a string written earlier.
CacheInit ==
    CacheStart({EmptyStore, [EmptyStore EXCEPT !["X"] = CorruptText]})

SchedNext(snapshots, senders) ==
    \/ \E sObject \in snapshots : Startup(sObject)
    \/ \E t \in timers : CacheTimerFires(t)
    \/ OnCacheForceTimeout
    \/ \E sender \in senders, payload \in snapshots :
          OnGlobal(sender, "tb-settings-update", payload)
    \/ \E sender \in senders : OnGlobal(sender, "tb-other", EmptySnapshot)

StoreNext(keys, values, defaults) ==
    \/ \E k \in keys, v \in defaults : OnCache("get", k, v)
    \/ \E k \in keys, v \in values : OnCache("set", k, v)
    \/ OnCache("clear", "X", JUndefined)
    \/ OnCache("other", "X", JUndefined)

\* --------------------------------------------------- OAuth request proxy
Base64Alphabet ==
    <<"A", "B", "C", "D", "E", "F", "G", "H", "I", "J", "K", "L", "M", "N", "O", "P",
      "Q", "R", "S", "T", "U", "V", "W", "X", "Y", "Z", "a", "b", "c", "d", "e", "f",
      "g", "h", "i", "j", "k", "l", "m", "n", "o", "p", "q", "r", "s", "t", "u", "v",
      "w", "x", "y", "z", "0", "1", "2", "3", "4", "5", "6", "7", "8", "9", "+", "/">>

\* The characters of codes 32 to 126.
Ascii ==
    <<" ", "!", "\"", "#", "$", "%", "&", "'", "(", ")", "*", "+", ",", "-", ".", "/",
      "0", "1", "2", "3", "4", "5", "6", "7", "8", "9", ":", ";", "<", "=", ">", "?",
      "@", "A", "B", "C", "D", "E", "F", "G", "H", "I", "J", "K", "L", "M", "N", "O",
      "P", "Q", "R", "S", "T", "U", "V", "W", "X", "Y", "Z", "[", "\\", "]", "^", "_",
      "(grave)", "a", "b", "c", "d", "e", "f", "g", "h", "i", "j", "k", "l", "m", "n", "o",
      "p", "q", "r", "s", "t", "u", "v", "w", "x", "y", "z", "{", "|", "}", "~">>

IsBase64Char(c) == \E i \in 1..64 : Base64Alphabet[i] = c

B64Index(c) == (CHOOSE i \in 1..64 : Base64Alphabet[i] = c) - 1

CharOfCode(b) == IF b >= 32 /\ b <= 126 THEN Ascii[b - 31] ELSE "?"

\* rawCookie.value.replace(/[^A-Za-z0-9+\/].*?$/, ''): the text before the
\* first character outside the base64 alphabet.
StripInvalid(s) ==
    LET invalid == {i \in 1..Len(s) : ~IsBase64Char(s[i])} IN
    IF invalid = {} THEN s
    ELSE SubSeq(s, 1, (CHOOSE i \in invalid : \A j \in invalid : i <= j) - 1)

\* atob of unpadded base64 text: 4 characters give 3 bytes, a tail of 3 gives
\* 2 and a tail of 2 gives 1.  (A tail of 1 makes atob throw.)
AtobGroup(s, g) ==
    LET c(j) == IF 4 * g + j <= Len(s) THEN B64Index(s[4 * g + j]) ELSE 0 IN
    c(1) * 262144 + c(2) * 4096 + c(3) * 64 + c(4)

AtobBytes(s) ==
    LET tail == Len(s) % 4
        count == (Len(s) \div 4) * 3 + (IF tail = 0 THEN 0 ELSE tail - 1)
    IN  [k \in 1..count |->
            LET n == AtobGroup(s, (k - 1) \div 3)
                p == (k - 1) % 3
            IN  IF p = 0 THEN n \div 65536
                ELSE IF p = 1 THEN (n \div 256) % 256
                ELSE n % 256]

Atob(s) ==
    LET bytes == AtobBytes(s) IN [i \in 1..Len(bytes) |-> CharOfCode(bytes[i])]

AtobThrows(s) == Len(s) % 4 = 1

\* JSON.parse of the token text {"accessToken":"..."}: its accessToken.
TokenPrefix ==
    <<"{", "\"", "a", "c", "c", "e", "s", "s", "T", "o", "k", "e", "n", "\"", ":", "\"">>

TokenSuffix == <<"\"", "}">>

IsTokenText(text) ==
    /\ Len(text) >= Len(TokenPrefix) + Len(TokenSuffix)
    /\ SubSeq(text, 1, Len(TokenPrefix)) = TokenPrefix
    /\ SubSeq(text, Len(text) - 1, Len(text)) = TokenSuffix

AccessToken(text) == SubSeq(text, Len(TokenPrefix) + 1, Len(text) - 2)

\* The cookie values the service issues: base64 of the token text, with its
\* padding, or with bytes that are no base64 after it.
CookieValueA ==
    <<"e", "y", "J", "h", "Y", "2", "N", "l", "c", "3", "N", "U", "b", "2", "t", "l",
      "b", "i", "I", "6", "I", "k", "E", "i", "f", "Q", "=", "=">>

CookieValueB ==
    <<"e", "y", "J", "h", "Y", "2", "N", "l", "c", "3", "N", "U", "b", "2", "t", "l",
      "b", "i", "I", "6", "I", "k", "J", "j", "I", "n", "0", "%", "3", "D">>

NoCookie == [present |-> FALSE, expired |-> FALSE, value |-> <<>>]

Cookie(value, expired) == [present |-> TRUE, expired |-> expired, value |-> value]

CookieStates ==
    {NoCookie, Cookie(CookieValueA, TRUE), Cookie(CookieValueA, FALSE),
     Cookie(CookieValueB, FALSE)}

\* !rawCookie || expired
CookieBad(rawCookie) == ~rawCookie.present \/ rawCookie.expired

MaxTries == 3

\* The provoking GET made whatever the cookie read returned.
ShouldProvokeAnyCookie(rawCookie, tries) == tries < MaxTries

\* (!rawCookie || expired) && tries < 3: visit modmail to get a cookie issued.
ShouldProvoke(rawCookie, tries) == CookieBad(rawCookie) /\ tries < MaxTries

\* (!rawCookie || expired) && tries > 2: give up.
ShouldReject(rawCookie, tries) == CookieBad(rawCookie) /\ tries > MaxTries - 1

\* getOAuthTokens(tries++): the argument is the value before the increment.
RecursiveTries(tries) == tries

\* A check for a slash anywhere in the endpoint.
StartsWithSlashAnywhere(endpoint) == \E i \in 1..Len(endpoint) : endpoint[i] = "/"

\* endpoint.startsWith('/')
StartsWithSlash(endpoint) == endpoint # <<>> /\ endpoint[1] = "/"

\* Every request sent to old.reddit.com, oauth or not.
RequestHostAlwaysOld(oauth) == "old"

\* `https://${oauth ? 'oauth' : 'old'}.reddit.com`
RequestHost(oauth) == IF oauth THEN "oauth" ELSE "old"

IdleReq ==
    [pc |-> "idle", oauth |-> FALSE, endpoint |-> <<>>, tries |-> 0, depth |-> 0,
     reads |-> 0, gets |-> 0, http |-> 0, host |-> "", auth |-> <<>>,
     firstRead |-> "none", firstCookie |-> <<>>, allBad |-> TRUE, readsAtHttp |-> 0,
     resp |-> "pending"]

\* 'tb-request' {method, endpoint, data, oauth}.  An endpoint without a leading
\* slash is answered with {errorThrown}.  With oauth, getOAuthTokens() starts
\* (chrome.cookies.get is asked); without, $.ajax goes out to old.reddit.com.
OnRequest(endpoint, oauth) ==
    /\ req.pc \in {"idle", "done", "hung"}
    /\ req' = IF ~StartsWithSlash(endpoint)
              THEN [IdleReq EXCEPT !.pc = "done", !.oauth = oauth,
                                   !.endpoint = endpoint, !.resp = "malformed"]
              ELSE IF oauth
              THEN [IdleReq EXCEPT !.pc = "cookieRead", !.oauth = oauth,
                                   !.endpoint = endpoint, !.tries = 1, !.depth = 1]
              ELSE [IdleReq EXCEPT !.pc = "http", !.oauth = oauth,
                                   !.endpoint = endpoint, !.http = 1,
                                   !.host = RequestHost(oauth)]
    /\ fx' = Fx("tb-request", 0, Via("tb-request"), FALSE, Undef, <<>>)
    /\ UNCHANGED <<notifVars, cacheVars, cookie>>

\* A count of reads, GETs or nested calls, kept up to MaxReads.
Count(n) == IF n < MaxReads THEN n + 1 ELSE n

\* The request after chrome.cookies.get's callback in getOAuthTokens has run
\* with rawCookie, base64Cookie being the cookie's value without what follows
\* its base64 text.
CookieRead(rq, rawCookie, base64Cookie) ==
    LET r == [rq EXCEPT !.reads = Count(@),
                        !.firstRead = IF @ # "none" THEN @
                                      ELSE IF CookieBad(rawCookie) THEN "bad"
                                      ELSE "valid",
                        !.firstCookie = IF rq.reads = 0 THEN rawCookie.value ELSE @,
                        !.allBad = @ /\ CookieBad(rawCookie)]
    IN
    IF ShouldProvoke(rawCookie, rq.tries)
    THEN \* $.get('https://mod.reddit.com/mail/all')
         [r EXCEPT !.gets = Count(@), !.pc = "get"]
    ELSE IF ShouldReject(rawCookie, rq.tries)
    THEN \* reject(new Error(...)): the outermost call's rejection is
         \* caught by tb-request; an inner call's is not passed on
         IF rq.depth = 1
         THEN [r EXCEPT !.pc = "done", !.resp = "not-authenticated"]
         ELSE [r EXCEPT !.pc = "hung"]
    ELSE LET tokenData == Atob(base64Cookie)
         IN  IF AtobThrows(base64Cookie) \/ ~IsTokenText(tokenData)
             THEN \* atob or JSON.parse throws inside the callback
                  [r EXCEPT !.pc = "hung"]
             ELSE \* resolve(tokens); the request goes out with the header
                  [r EXCEPT !.pc = "http", !.http = @ + 1,
                            !.host = RequestHost(rq.oauth),
                            !.auth = AccessToken(tokenData),
                            !.readsAtHttp = r.reads]

\* chrome.cookies.get's callback in getOAuthTokens.
CookieCallback ==
    /\ req.pc = "cookieRead"
    /\ \E base64Cookie \in {StripInvalid(cookie.value)} :
          \E r \in {CookieRead(req, cookie, base64Cookie)} : req' = r
    /\ fx' = Fx("cookies.get", 0, "none", FALSE, Undef, <<>>)
    /\ UNCHANGED <<notifVars, cacheVars, cookie>>

\* The modmail GET succeeds: getOAuthTokens(tries++).then(resolve).
GetDone ==
    /\ req.pc = "get"
    /\ req' = [req EXCEPT !.pc = "cookieRead", !.tries = RecursiveTries(@),
                          !.depth = Count(@)]
    /\ fx' = Fx("get.done", 0, "none", FALSE, Undef, <<>>)
    /\ UNCHANGED <<notifVars, cacheVars, cookie>>

\* The modmail GET fails: only .done was given a callback.
GetFails ==
    /\ req.pc = "get"
    /\ req' = [req EXCEPT !.pc = "hung"]
    /\ fx' = Fx("get.fail", 0, "none", FALSE, Undef, <<>>)
    /\ UNCHANGED <<notifVars, cacheVars, cookie>>

\* $.ajax settles, either way: makeRequest resolves and the sender is answered.
HttpCompletes ==
    /\ req.pc = "http"
    /\ req' = [req EXCEPT !.pc = "done", !.resp = "http"]
    /\ fx' = Fx("ajax", 0, "none", FALSE, Undef, <<>>)
    /\ UNCHANGED <<notifVars, cacheVars, cookie>>

\* The service issues or drops the cookie, or the cookie's time runs out.
CookieChanges(c) ==
    /\ c # cookie
    /\ cookie' = c
    /\ fx' = Fx("cookie", 0, "none", FALSE, Undef, <<>>)
    /\ UNCHANGED <<notifVars, cacheVars, req>>

\* The endpoints a tb-request may carry: "/a", "a/", "" and "h:/".
Endpoints == {<<"/", "a">>, <<"a", "/">>, <<>>, <<"h", ":", "/">>}

AuthStart(cookies) ==
    /\ req = IdleReq
    /\ cookie \in cookies

AuthNext ==
    \/ \E e \in Endpoints, oauth \in BOOLEAN : OnRequest(e, oauth)
    \/ CookieCallback
    \/ GetDone
    \/ GetFails
    \/ HttpCompletes
    \/ \E c \in CookieStates : CookieChanges(c)

NotifStart(handlers, permApis) ==
    /\ messageHandlers \in handlers
    /\ hasPermApi \in permApis
    /\ nextId = 1
    /\ sendReq = [i \in Ids |-> [pc |-> "idle", markreadid |-> FALSE]]
    /\ notificationData = [i \in Ids |-> NoRecord]
    /\ expiryTimers = [i \in Ids |-> 0]
    /\ hostShown = {}
    /\ closedQueue = {}
    /\ hostClearCalls = [i \in Ids |-> 0]
    /\ clearBroadcasts = [i \in Ids |-> 0]
    /\ tabOpens = [i \in Ids |-> 0]
    /\ disposedEarly = {}

\* background.js alone registers nothing; with handlers/notifications.js loaded
\* the three notification actions have handlers.
NotifInit == NotifStart({EmptyMap, NotificationsJs}, BOOLEAN)

NotifQuiet == NotifStart({EmptyMap}, {TRUE})

NotifNext ==
    \/ \E native \in BOOLEAN, markreadid \in BOOLEAN : OnNotification(native, markreadid)
    \/ \E id \in Ids, p \in {"granted", "denied"} : PermissionCallback(id, p)
    \/ \E id \in Ids : CreateCallback(id)
    \/ \E id \in Ids : QueryCallback(id)
    \/ \E id \in Ids : ExpiryFires(id)
    \/ \E id \in Ids : OnPageNotificationClose(id)
    \/ \E id \in Ids : OnPageNotificationClick(id)
    \/ \E id \in Ids : HostClicked(id)
    \/ \E id \in Ids : UserCloses(id)
    \/ \E id \in Ids : HostClosed(id)
    \/ \E id \in Ids : TabOpens(id)

\* ------------------------------------------------------------- the router
\* A message as the listener receives it; the fields an action does not use
\* are left at their defaults.
EmptyRequest ==
    [action |-> "", sender |-> 1, globalEvent |-> "", payload |-> EmptySnapshot,
     native |-> FALSE, markreadid |-> FALSE, id |-> 1, endpoint |-> <<>>,
     oauth |-> FALSE, method |-> "", storageKey |-> "X", inputValue |-> JUndefined]

\* The last branch of the listener entered without its test of request.action.
BranchUnguarded(action) ==
    IF messageHandlers[action] \notin {NoHandler, "notifications.js"} THEN "handler"
    ELSE IF messageHandlers[action] # NoHandler \/ action \in BuiltinActions THEN action
    ELSE "tb-cache"

\* The branch the listener takes for an action: the registered handler's (the
\* handlers of notifications.js do what the listener's own branches do), the
\* listener's own, or none.
Branch(action) ==
    IF messageHandlers[action] \notin {NoHandler, "notifications.js"} THEN "handler"
    ELSE IF messageHandlers[action] # NoHandler \/ action \in BuiltinActions THEN action
    ELSE "none"

\* messageHandlers.set(action, handler), as a script does when it loads.
Register(action, handler) ==
    /\ messageHandlers' = MapSet(messageHandlers, action, handler)
    /\ fx' = [Fx("messageHandlers.set", 0, "none", FALSE, Undef,
                 IF messageHandlers[action] # NoHandler THEN <<"overwrite">> ELSE <<>>)
                EXCEPT !.arg.key = action, !.method = handler]
    /\ UNCHANGED <<cacheVars, authVars>>
    /\ UNCHANGED <<hasPermApi, nextId, sendReq, notificationData, expiryTimers,
                   hostShown, closedQueue, hostClearCalls, clearBroadcasts, tabOpens,
                   disposedEarly>>

\* The listener's first lines for an action whose handler is not one of
\* notifications.js: the handler is called and its result returned.  What such
\* a handler does is its own business; only the call is recorded.
DispatchRegistered(action) ==
    /\ Branch(action) = "handler"
    /\ fx' = Fx(action, 0, Via(action), FALSE, Undef, <<>>)
    /\ UNCHANGED <<notifVars, cacheVars, authVars>>

\* browser.runtime.onMessage's listener.  ('tb-reload' restarts the extension
\* and is not modelled.)
Listener(request) ==
    LET action == Branch(request.action) IN
    \/ /\ action = "tb-global"
       /\ OnGlobal(request.sender, request.globalEvent, request.payload)
    \/ /\ action = "tb-cache-force-timeout"
       /\ OnCacheForceTimeout
    \/ /\ action = "tb-notification"
       /\ OnNotification(request.native, request.markreadid)
    \/ /\ action = "tb-page-notification-click"
       /\ OnPageNotificationClick(request.id)
    \/ /\ action = "tb-page-notification-close"
       /\ OnPageNotificationClose(request.id)
    \/ /\ action = "tb-request"
       /\ OnRequest(request.endpoint, request.oauth)
    \/ /\ action = "tb-cache"
       /\ OnCache(request.method, request.storageKey, request.inputValue)
    \/ /\ action = "none"
       /\ fx' = Fx(request.action, 0, "none", FALSE, Undef, <<>>)
       /\ UNCHANGED <<notifVars, cacheVars, authVars>>

\* Messages with an action the listener does not know; their other fields are
\* those of messages it does know.
UnknownRequests ==
    {[EmptyRequest EXCEPT !.action = "tb-unknown", !.method = "clear"],
     [EmptyRequest EXCEPT !.action = "tb-cache-v2", !.method = "set",
                          !.inputValue = JArray(<<>>)]}

RouterRequests ==
    UnknownRequests \cup
    {[EmptyRequest EXCEPT !.action = "tb-global", !.globalEvent = "tb-other"],
     [EmptyRequest EXCEPT !.action = "tb-cache-force-timeout"],
     [EmptyRequest EXCEPT !.action = "tb-notification"],
     [EmptyRequest EXCEPT !.action = "tb-page-notification-click"],
     [EmptyRequest EXCEPT !.action = "tb-page-notification-close"],
     [EmptyRequest EXCEPT !.action = "tb-request", !.endpoint = <<"a">>],
     [EmptyRequest EXCEPT !.action = "tb-cache", !.method = "set",
                          !.inputValue = JArray(<<1, 2, 3>>)],
     [EmptyRequest EXCEPT !.action = "tb-cache", !.method = "clear"]}

\* ---------------------------------------------------------- specifications
\* The notification lifecycle.
InitNotif ==
    NotifInit /\ CacheStart({EmptyStore}) /\ AuthStart({NoCookie}) /\ fx = NoFx

SpecNotif == InitNotif /\ [][NotifNext]_vars

\* The notification lifecycle when nobody clicks or closes and the host delivers
\* no close event: sends, their callbacks and the expiry timers, which the event
\* loop runs once they are due.
NextExpiry ==
    \/ \E native \in BOOLEAN, markreadid \in BOOLEAN : OnNotification(native, markreadid)
    \/ \E id \in Ids, p \in {"granted", "denied"} : PermissionCallback(id, p)
    \/ \E id \in Ids : CreateCallback(id)
    \/ \E id \in Ids : QueryCallback(id)
    \/ \E id \in Ids : ExpiryFires(id)

SpecExpiry ==
    /\ InitNotif
    /\ [][NextExpiry]_vars
    /\ \A id \in Ids : WF_vars(ExpiryFires(id))
    /\ \A id \in Ids : WF_vars(CreateCallback(id))
    /\ \A id \in Ids : WF_vars(QueryCallback(id))

\* The handler registry: registrations, and the listener dispatching the
\* actions registered (to the handlers of notifications.js, to its own
\* branches, or to a handler registered later).
InitRegistry ==
    /\ NotifStart({EmptyMap}, {TRUE})
    /\ CacheStart({EmptyStore})
    /\ AuthStart({NoCookie})
    /\ fx = NoFx

NextRegistry ==
    \/ \E action \in NotificationHandlers, handler \in Handlers : Register(action, handler)
    \/ /\ Branch("tb-notification") = "tb-notification"
       /\ \E native \in BOOLEAN : OnNotification(native, FALSE)
    \/ /\ Branch("tb-page-notification-click") = "tb-page-notification-click"
       /\ OnPageNotificationClick(1)
    \/ /\ Branch("tb-page-notification-close") = "tb-page-notification-close"
       /\ OnPageNotificationClose(1)
    \/ \E action \in NotificationHandlers : DispatchRegistered(action)

SpecRegistry == InitRegistry /\ [][NextRegistry]_vars

\* The cache store under tb-cache messages, with the scheduler clearing tiers.
StoreSnapshots == {Snapshot(TRUE, SUndef, SUndef)}

InitStore == NotifQuiet /\ CacheInit /\ AuthStart({NoCookie}) /\ fx = NoFx

NextStore ==
    \/ SchedNext(StoreSnapshots, {1})
    \/ StoreNext(MsgKeys, CacheValues, CacheValues)

SpecStore == InitStore /\ [][NextStore]_vars

\* The cache scheduler under settings updates, force refreshes and timers.
InitSched ==
    NotifQuiet /\ CacheStart({EmptyStore}) /\ AuthStart({NoCookie}) /\ fx = NoFx

NextSched ==
    \/ SchedNext(SnapshotInputs, {NoTab, 1})
    \/ StoreNext({"TBCache.Utils.noteCache"}, {JNull, JArray(<<1, 2, 3>>)}, {JNull})

SpecSched == InitSched /\ [][NextSched]_vars

\* The cache scheduler when the start-up callback runs and every pending timer
\* of a tier fires in the end.
SpecSchedFair ==
    /\ InitSched
    /\ [][NextSched]_vars
    /\ WF_vars(\E sObject \in SnapshotInputs : Startup(sObject))
    /\ \A x \in Tiers : WF_vars(\E t \in timers : t.tier = x /\ CacheTimerFires(t))

\* The request proxy and getOAuthTokens.
InitAuth == NotifQuiet /\ CacheStart({EmptyStore}) /\ AuthStart(CookieStates) /\ fx = NoFx

SpecAuth == InitAuth /\ [][AuthNext]_vars

\* The request proxy when every cookie read, every GET and every HTTP request
\* completes.
SpecAuthFair ==
    /\ InitAuth
    /\ [][AuthNext]_vars
    /\ WF_vars(CookieCallback)
    /\ WF_vars(GetDone \/ GetFails)
    /\ WF_vars(HttpCompletes)

\* The router: every branch of the listener, with the callbacks that follow.
InitRouter ==
    /\ NotifStart({EmptyMap, NotificationsJs}, {TRUE})
    /\ CacheStart({EmptyStore})
    /\ AuthStart({NoCookie})
    /\ fx = NoFx

NextRouter ==
    \/ \E request \in RouterRequests : Listener(request)
    \/ Startup(Snapshot(TRUE, SUndef, SUndef))
    \/ \E id \in Ids : QueryCallback(id)

SpecRouter == InitRouter /\ [][NextRouter]_vars

\* ------------------------------------------------------------------ claims
TimersOf(cacheType) == {t \in timers : t.tier = cacheType}

\* C1: a message with an unknown action is answered with undefined, raises no
\* error and leaves the notification records, the expiry timers, the cache
\* timers, the durations in effect and the store as they were.
C1_UnknownActionIgnored ==
    [][\A request \in UnknownRequests :
          Listener(request) =>
             /\ fx'.resp = Undef
             /\ ~fx'.threw
             /\ UNCHANGED <<notificationData, expiryTimers, timers, timeouts,
                            currentDurations, localStorage>>]_vars

C1_Witness ==
    /\ fx.op = "tb-unknown"
    /\ fx.resp = Undef
    /\ timers # {}
    /\ notificationData[1] # NoRecord
    /\ localStorage["X"] # Unset

\* C2 (as claimed): no id ever gets a second host-level clear call or a second
\* 'clear' broadcast.
C2_ClearIdempotent ==
    \A id \in Ids : hostClearCalls[id] <= 1 /\ clearBroadcasts[id] <= 1

\* C3 (as claimed): once id was cleared, clicked or host-closed before its
\* expiry fired, no expiry timer for it is pending.
C3_ExpiryCancelled ==
    \A id \in disposedEarly : expiryTimers[id] = 0

\* C3 (amended): an expiry timer goes away only by firing; when it fires for
\* an id whose record is gone, clearNotification does nothing: no host clear,
\* no broadcast, no error.
C3_ExpiryFiresAsNoOp ==
    [][\A id \in Ids :
          expiryTimers'[id] < expiryTimers[id] =>
             /\ fx'.op = "expiry" /\ fx'.id = id
             /\ notificationData[id] = NoRecord =>
                   /\ fx'.eff = <<>>
                   /\ ~fx'.threw
                   /\ UNCHANGED <<notificationData, hostShown, closedQueue,
                                  hostClearCalls, clearBroadcasts>>]_vars

C3_Witness ==
    /\ fx.op = "expiry"
    /\ fx.id \in disposedEarly
    /\ notificationData[fx.id] = NoRecord
    /\ fx.eff = <<>>
    /\ ~fx.threw

\* C4 (as claimed): once the start-up callback has run, each tier has exactly
\* one pending timer.
C4_OneTimerPerTier ==
    started # "no" => \A x \in Tiers : Cardinality(TimersOf(x)) = 1

\* C5 (as claimed): while every cookie read finds the cookie missing or
\* expired, the cookie is read at most 3 times and the GET made at most twice,
\* and after the third read the request is answered "not authenticated".
C5_ThreeReadsThenFail ==
    (req.oauth /\ req.allBad) =>
        /\ req.reads <= 3
        /\ req.gets <= 2
        /\ (req.reads = 3 /\ req.pc # "cookieRead") => req.resp = "not-authenticated"

\* C6: when the first cookie read finds an unexpired cookie, the request goes
\* out with the token decoded from it, and no GET and no second read is made.
C6_ValidCookieFirstAttempt ==
    (req.oauth /\ req.firstRead = "valid") =>
        /\ req.gets = 0
        /\ req.reads = 1
        /\ req.pc \in {"http", "done"}
        /\ req.http = 1
        /\ req.auth = IF req.firstCookie = CookieValueA THEN <<"A">> ELSE <<"B", "c">>

C6_Witness ==
    /\ req.oauth /\ req.firstRead = "valid" /\ req.firstCookie = CookieValueB
    /\ req.pc = "done" /\ req.resp = "http" /\ req.auth = <<"B", "c">>
    /\ req.gets = 0 /\ req.reads = 1

\* C7: a tb-request whose endpoint does not begin with '/' is answered with an
\* error at once; no HTTP request, no GET and no cookie read is made for it,
\* with oauth or without.
C7_BadEndpointRejected ==
    (req.pc # "idle" /\ (req.endpoint = <<>> \/ req.endpoint[1] # "/")) =>
        /\ req.pc = "done"
        /\ req.resp = "malformed"
        /\ req.http = 0 /\ req.gets = 0 /\ req.reads = 0
        /\ ~fx.threw

C7_Witness ==
    /\ req.pc = "done" /\ req.resp = "malformed" /\ req.oauth
    /\ req.endpoint = <<"a", "/">>
    /\ req.http = 0 /\ req.reads = 0

\* C8 (as claimed): an oauth request whose cookie reads have all failed gets
\* the "not authenticated" error once the third read has been handled, and no
\* HTTP request has gone out for it.
C8_AuthFailureReported ==
    (req.oauth /\ req.allBad /\ req.reads >= 3 /\ req.pc # "cookieRead") =>
        /\ req.pc = "done"
        /\ req.resp = "not-authenticated"
        /\ req.http = 0

\* C9: a get of a key whose stored string is no JSON answers with the default
\* it was given and an error field, raises nothing and leaves the store alone.
C9_CorruptGetReturnsDefault ==
    [][(fx'.op = "tb-cache" /\ fx'.method = "get"
          /\ localStorage[fx'.arg.key] \in {CorruptText, UndefinedText}) =>
             /\ fx'.resp = Result(fx'.arg.val, TRUE)
             /\ ~fx'.threw
             /\ localStorage' = localStorage]_vars

C9_Witness ==
    /\ fx.op = "tb-cache" /\ fx.method = "get"
    /\ localStorage[fx.arg.key] = CorruptText
    /\ fx.arg.val = JArray(<<>>)
    /\ fx.resp = Result(JArray(<<>>), TRUE)

\* C10 (as claimed, for every V a message carries): a get of an unset key
\* answers with exactly the default and no error field; a get of a key last
\* set to V answers with V.
C10_GetReturnsLastSet ==
    (fx.op = "tb-cache" /\ fx.method = "get") =>
        /\ localStorage[fx.arg.key] = Unset => fx.resp = Result(fx.arg.val, FALSE)
        /\ lastSet[fx.arg.key] \notin {NotSet, JUndefined} =>
              fx.resp.value = lastSet[fx.arg.key]

\* C10 (amended): as claimed, for every V that is neither null nor undefined.
C10_GetReturnsLastSetNonNull ==
    (fx.op = "tb-cache" /\ fx.method = "get") =>
        /\ localStorage[fx.arg.key] = Unset => fx.resp = Result(fx.arg.val, FALSE)
        /\ lastSet[fx.arg.key] \notin {NotSet, JNull, JUndefined} =>
              fx.resp = Result(lastSet[fx.arg.key], FALSE)

C10_Witness ==
    /\ fx.op = "tb-cache" /\ fx.method = "get"
    /\ lastSet[fx.arg.key] = JArray(<<1, 2, 3>>)
    /\ fx.arg.val = JObject
    /\ fx.resp = Result(JArray(<<1, 2, 3>>), FALSE)

\* The length a snapshot configures for a tier, as initCachetimeout reads it.
ConfiguredLength(snapshot, cacheType) ==
    IF cacheType = "short" THEN StorageLength(snapshot.short, DefaultShortLength)
    ELSE StorageLength(snapshot.long, DefaultLongLength)

\* The snapshots that carry tbsettings and configure the short tier to 5.
ShortFiveSnapshots ==
    {p \in SnapshotInputs : p.tb /\ ConfiguredLength(p, "short") = 5}

\* C11: a settings update whose short duration is 5, differing from the short
\* duration in effect, resets every short key to its sentinel in that step,
\* removes the short timers that were pending and leaves exactly one short
\* timer, of 5 minutes = 300000 ms, whose handle cachedata.timeouts holds.
C11_ShortRearmedAtFive ==
    [][(fx'.op = "tb-global" /\ fx'.arg.key = "tb-settings-update"
          /\ TBsettingsObject' \in ShortFiveSnapshots
          /\ currentDurations.short # 5) =>
             /\ \A k \in ShortKeys : localStorage'[k] = Sentinel(k)
             /\ TimersOf("short") \cap timers' = {}
             /\ \E t \in timers' :
                   /\ {u \in timers' : u.tier = "short"} = {t}
                   /\ t.dur = 5 /\ t.ms = 300000
                   /\ t.handle = timeouts'.short
             /\ currentDurations'.short = 5
             /\ TierEvent("short") \in {fx'.eff[i] : i \in 1..Len(fx'.eff)}
             /\ ~fx'.threw]_vars

C11_Witness ==
    /\ fx.op = "tb-global" /\ fx.arg.key = "tb-settings-update"
    /\ started = "ok"
    /\ TBsettingsObject = Snapshot(TRUE, SStr(<<"5">>), SNum(30))
    /\ "short" \in ClearedTiers(fx.eff)
    /\ \E t \in timers : t.tier = "short" /\ t.ms = 300000
    /\ localStorage["TBCache.Utils.noteCache"] = <<"{", "}">>

\* C12 (as claimed): a settings update leaves alone every tier whose pending
\* timer already runs at the duration the update configures for it: its timers,
\* its stored keys, and no tier-cleared broadcast for it.
C12_TiersIndependent ==
    [][\A sender \in {NoTab, 1}, payload \in SnapshotInputs, x \in Tiers :
          (OnGlobal(sender, "tb-settings-update", payload)
             /\ payload.tb
             /\ ConfiguredLength(payload, x) # NaN
             /\ \E t \in TimersOf(x) : t.dur = ConfiguredLength(payload, x)) =>
             /\ {u \in timers' : u.tier = x} = TimersOf(x)
             /\ \A k \in TierKeys(x) : localStorage'[k] = localStorage[k]
             /\ x \notin ClearedTiers(fx'.eff)]_vars

\* C13 (as claimed): a force refresh resets the keys of both tiers, removes the
\* timers that were pending and leaves one new timer per tier.
C13_ForceRefreshBothTiers ==
    [][OnCacheForceTimeout =>
          /\ \A x \in Tiers : \A k \in TierKeys(x) : localStorage'[k] = Sentinel(k)
          /\ timers \cap timers' = {}
          /\ \A x \in Tiers : Cardinality({u \in timers' : u.tier = x}) = 1
          /\ ClearedTiers(fx'.eff) = Tiers]_vars

\* C20 (as claimed): no key of a cache tier ever holds the text null.
C20_NoNullInTierKeys ==
    \A k \in ShortKeys \cup LongKeys : localStorage[k] # NullText

\* C14: a native send waiting for the permission answer or denied by it has
\* no host notification, no record and no expiry timer; a denial always ends
\* the send as rejected; without getPermissionLevel no send waits for an answer
\* or is rejected.
C14_DeniedCreatesNothing ==
    /\ \A id \in Ids :
          sendReq[id].pc \in {"perm", "rejected"} =>
             /\ notificationData[id] = NoRecord
             /\ id \notin hostShown \cup closedQueue
             /\ expiryTimers[id] = 0
             /\ hostClearCalls[id] = 0
    /\ (fx.op = "permission" /\ fx.method = "denied") => sendReq[fx.id].pc = "rejected"
    /\ ~hasPermApi => \A id \in Ids : sendReq[id].pc \in {"idle", "create", "query", "done"}

C14_Witness ==
    /\ fx.op = "permission" /\ fx.method = "denied"
    /\ sendReq[fx.id].pc = "rejected"
    /\ notificationData[fx.id] = NoRecord
    /\ expiryTimers[fx.id] = 0
    /\ \E j \in Ids : sendReq[j].pc = "done" /\ notificationData[j].type = "native"

\* C15 (as claimed): when clearNotification has run for an id that had a
\* record (on expiry or on a close message), the id has no record.
C15_ClearDeletesRecord ==
    [][\A id \in Ids :
          (fx'.op \in {"expiry", "tb-page-notification-close"} /\ fx'.id = id
             /\ notificationData[id] # NoRecord) =>
             notificationData'[id] = NoRecord]_vars

\* C16 (as claimed): with the timers running, every record is eventually
\* removed although no click, close message or host close event arrives.
C16_RecordEventuallyRemoved ==
    \A id \in Ids : (notificationData[id] # NoRecord) ~> (notificationData[id] = NoRecord)

\* C17: the host's close event for id deletes the record of id and nothing
\* else: no host clear call, no broadcast, no effect, every other record, the
\* displayed notifications and the timers as they were.
C17_HostCloseOnlyDeletes ==
    [][\A id \in Ids :
          (fx'.op = "onClosed" /\ fx'.id = id) =>
             /\ notificationData' = [notificationData EXCEPT ![id] = NoRecord]
             /\ fx'.eff = <<>>
             /\ ~fx'.threw
             /\ UNCHANGED <<hostClearCalls, clearBroadcasts, hostShown, expiryTimers,
                            tabOpens>>]_vars

C17_Witness ==
    /\ fx.op = "onClosed"
    /\ notificationData[fx.id] = NoRecord
    /\ hostClearCalls[fx.id] = 0
    /\ \E j \in Ids : j # fx.id /\ notificationData[j].type = "native" /\ j \in hostShown

\* C18 (as claimed): when a click has cleared the notification, the tab has
\* been opened: no tab creation for the id is still pending.
C18_TabOpenedBeforeClear ==
    (fx.op \in {"onClicked", "tb-page-notification-click"} /\ ~fx.threw) =>
        tabOpens[fx.id] = 0

\* C18 (amended): a click on a live notification posts read_message exactly if
\* the record has a markreadid, then asks for the last focused window, then
\* clears the notification, all in one task; the tab is created afterwards, so
\* its creation is pending when the notification has been cleared.
C18_ClickOrder ==
    [][\A id \in Ids :
          (fx'.op \in {"onClicked", "tb-page-notification-click"} /\ fx'.id = id
             /\ notificationData[id] # NoRecord) =>
             /\ fx'.eff = (IF notificationData[id].markreadid THEN <<"markRead">> ELSE <<>>)
                          \o <<"getLastFocused">>
                          \o <<IF notificationData[id].type = "native"
                               THEN "hostClear" ELSE "clearBroadcast">>
             /\ tabOpens'[id] = Bump(tabOpens[id])
             /\ tabOpens'[id] > 0
             /\ ~fx'.threw]_vars

C18_Witness ==
    /\ fx.op = "onClicked"
    /\ fx.eff = <<"markRead", "getLastFocused", "hostClear">>
    /\ tabOpens[fx.id] > 0
    /\ fx.id \in closedQueue

\* C19 (as claimed): registering a handler for an action that already has one
\* raises an error and leaves the registry as it was.
C19_DuplicateRejected ==
    [][(fx'.op = "messageHandlers.set" /\ messageHandlers[fx'.arg.key] # NoHandler) =>
          /\ fx'.threw
          /\ messageHandlers' = messageHandlers]_vars

\* C19 (amended): a registration raises nothing and makes its handler the one
\* of the action, whether or not the action had a handler, leaving the other
\* actions' handlers alone; a message is dispatched to the handler the
\* registry then holds for its action.
C19_LaterRegistrationReplaces ==
    [][/\ fx'.op = "messageHandlers.set" =>
             /\ ~fx'.threw
             /\ messageHandlers'[fx'.arg.key] = fx'.method
             /\ \A a \in ActionNames \ {fx'.arg.key} :
                   messageHandlers'[a] = messageHandlers[a]
       /\ (fx'.op \in NotificationHandlers /\ messageHandlers[fx'.op] # NoHandler) =>
             fx'.via = messageHandlers[fx'.op]]_vars

C19_Witness ==
    /\ fx.op = "messageHandlers.set"
    /\ fx.eff = <<"overwrite">>
    /\ fx.method = "later"
    /\ messageHandlers[fx.arg.key] = "later"
    /\ ~fx.threw

\* C21 (as claimed): a tb-global message reaches every reddit tab but the
\* sender's own, and the delivery raises no error, whoever the sender is.
C21_BroadcastExceptSender ==
    fx.op = "tb-global" => (fx.to = RedditTabs \ {fx.id} /\ ~fx.cbThrew)

\* C22 (as claimed): a click for an id whose notification was created and
\* whose record is gone raises no error and has no effect.
C22_ClickWithoutRecordNoOp ==
    [][(fx'.op \in {"onClicked", "tb-page-notification-click"}
          /\ sendReq[fx'.id].pc = "done"
          /\ notificationData[fx'.id] = NoRecord) =>
             (~fx'.threw /\ fx'.eff = <<>>)]_vars

\* C23 (as claimed): a tb-request that has started is eventually answered.
C23_RequestEventuallySettles ==
    (req.pc \notin {"idle", "done"}) ~> (req.pc = "done")

\* C28: once the HTTP request of a tb-request has gone out, it went to the
\* oauth host with the token of the cookie as bearer if oauth was set, and to
\* the old host with no bearer if not; a request without oauth reads no
\* cookie and makes no GET.
C28_HostAndHeaderFollowOauth ==
    /\ req.http > 0 =>
          /\ req.host = (IF req.oauth THEN "oauth" ELSE "old")
          /\ (req.auth # <<>>) = req.oauth
          /\ req.oauth => req.auth \in {<<"A">>, <<"B", "c">>}
    /\ (req.pc # "idle" /\ ~req.oauth) => (req.reads = 0 /\ req.gets = 0 /\ req.auth = <<>>)

C28_Witness ==
    /\ req.pc = "done" /\ req.resp = "http"
    /\ ~req.oauth
    /\ req.host = "old" /\ req.auth = <<>> /\ req.reads = 0
    /\ cookie = Cookie(CookieValueA, FALSE)

\* C29: a tb-notification message starts exactly one send, through the
\* registered handler or through the listener's own branch and never both: it
\* takes one id and creates at most one record.  An expiry timer is armed only
\* by the completion of a send, once, and no id ever has more than one pending
\* expiry timer or more records than sends.
C29_SendHandledOnce ==
    /\ [](/\ \A id \in Ids : expiryTimers[id] <= 1
          /\ \A id \in Ids : notificationData[id] # NoRecord => id < nextId)
    /\ [][/\ fx'.op = "tb-notification" =>
               /\ fx'.via \in {"notifications.js", "builtin"}
               /\ nextId' = nextId + 1
               /\ Cardinality({id \in Ids : sendReq'[id] # sendReq[id]}) = 1
               /\ Cardinality({id \in Ids : notificationData'[id] # NoRecord
                                           /\ notificationData[id] = NoRecord}) <= 1
               /\ expiryTimers' = expiryTimers
          /\ \A id \in Ids :
               expiryTimers'[id] > expiryTimers[id] =>
                  /\ sendReq[id].pc \in {"create", "query"}
                  /\ sendReq'[id].pc = "done"
                  /\ expiryTimers'[id] = 1]_vars

C29_Witness ==
    /\ fx.op = "tb-notification" /\ fx.via = "notifications.js" /\ fx.id = 2
    /\ notificationData[1] # NoRecord
    /\ expiryTimers[1] = 1

\* The last task ran initCachetimeout: start-up, a force refresh or a settings
\* update.
RanInitCachetimeout ==
    \/ fx.op \in {"startup", "tb-cache-force-timeout"}
    \/ fx.op = "tb-global" /\ fx.arg.key = "tb-settings-update"

\* The timer of a tier that cachedata.timeouts holds, if it is pending.
LiveTimers(cacheType) == {t \in TimersOf(cacheType) : t.handle = timeouts[cacheType]}

\* C24 (as claimed): after a run of initCachetimeout that raised no error,
\* each tier has a live timer and currentDurations holds its duration.
C24_RecordedDurationIsLive ==
    (RanInitCachetimeout /\ ~fx.threw) =>
        \A x \in Tiers :
            \E t \in LiveTimers(x) : t.dur = currentDurations[x]

\* C25 (as claimed, for snapshots that carry tbsettings): once the scheduler
\* has started, every pending timer of a tier is the live one, and its
\* duration is the one the latest snapshot gives for the tier (the default if
\* it gives none).
C25_LastWriteWins ==
    (started = "ok" /\ TBsettingsObject.tb) =>
        \A x \in Tiers :
            /\ LiveTimers(x) # {}
            /\ \A t \in TimersOf(x) :
                  /\ t \in LiveTimers(x)
                  /\ t.dur = ConfiguredLength(TBsettingsObject, x)

\* C26 (as claimed): each tier is cleared by its timer again and again.
C26_TiersClearedForever ==
    \A x \in Tiers : []<>(fx.op = "cacheTimer" /\ fx.arg.key = x)

\* The default duration of a tier.
DefaultLength(cacheType) ==
    IF cacheType = "short" THEN DefaultShortLength ELSE DefaultLongLength

\* The snapshot gives no duration for the tier.
Omits(snapshot, cacheType) ==
    IF cacheType = "short" THEN snapshot.short = SUndef ELSE snapshot.long = SUndef

\* C27 (as claimed): after start-up and after a settings update, a tier whose
\* duration the snapshot omits has a live timer of the default duration.
C27_OmittedGetsDefault ==
    (fx.op = "startup" \/ (fx.op = "tb-global" /\ fx.arg.key = "tb-settings-update")) =>
        \A x \in Tiers :
            Omits(TBsettingsObject, x) =>
                \E t \in LiveTimers(x) : t.dur = DefaultLength(x)

====
